---- MODULE Spec2Model ----
(***************************************************************************)
(* Model of the event-recommender front ends:                              *)
(*   - the raw-block parser parseRecommendation and the card rendering of  *)
(*     the structured React UI (specification SpecCards);                  *)
(*   - the submit handlers and the location lookups of the four UI         *)
(*     variants: the axios React UI (frontend/src/App.tsx), the structured *)
(*     React UI, the browser extension popup and the HTML template         *)
(*     (specification Spec);                                               *)
(*   - the preferences of App.tsx and their copy in localStorage           *)
(*     (specification SpecPrefs).                                          *)
(* Strings that the code takes apart are sequences of one-character        *)
(* strings; messages the code only passes along are TLA+ strings.          *)
(***************************************************************************)
EXTENDS Integers, Sequences, FiniteSets, TLC

VARIABLES text, rec, view, variant, app, p0, popup, tpl

vars == <<text, rec, view, variant, app, p0, popup, tpl>>

(***************************************************************************)
(* Bounds of the model.                                                    *)
(***************************************************************************)
\* lines of a raw block
MaxLines == 3
\* categories of a structured record sent by the backend
MaxCats == 3
\* handler invocations in flight at once, where the code sets no limit itself
MaxInFlight == 2
\* interests in the list of App.tsx
MaxInterests == 2
\* location lookups of App.tsx in flight at once
MaxLookups == 1

(***************************************************************************)
(* Optional values (undefined / null in the source).                       *)
(***************************************************************************)
None == <<>>
Some(v) == <<v>>
IsSome(m) == m # <<>>
Val(m) == m[1]

(***************************************************************************)
(* String primitives of JavaScript used by the code.                       *)
(***************************************************************************)
\* the characters String.prototype.trim and the regex class \s remove
WhiteSpace == {" ", "\t", "\r", "\n"}

RECURSIVE TrimStart(_)
TrimStart(s) ==
  IF s # <<>> /\ Head(s) \in WhiteSpace THEN TrimStart(Tail(s)) ELSE s

RECURSIVE TrimEnd(_)
TrimEnd(s) ==
  IF s # <<>> /\ s[Len(s)] \in WhiteSpace
  THEN TrimEnd(SubSeq(s, 1, Len(s) - 1))
  ELSE s

\* String.prototype.trim
Trim(s) == TrimEnd(TrimStart(s))

\* String.prototype.startsWith
StartsWith(s, p) == Len(p) <= Len(s) /\ SubSeq(s, 1, Len(p)) = p

\* position of the first occurrence of p in s, 0 when there is none
IndexOf(s, p) ==
  LET hits == {i \in 1..(Len(s) - Len(p) + 1) : SubSeq(s, i, i + Len(p) - 1) = p}
  IN IF hits = {} THEN 0 ELSE CHOOSE i \in hits : \A j \in hits : i <= j

\* s.replace(p, '') with a string pattern: the first occurrence only
RemoveFirst(s, p) ==
  LET i == IndexOf(s, p)
  IN IF i = 0 THEN s ELSE SubSeq(s, 1, i - 1) \o SubSeq(s, i + Len(p), Len(s))

\* s.split(c) for a one-character separator: never an empty array
RECURSIVE Split(_, _)
Split(s, c) ==
  LET i == IndexOf(s, <<c>>)
  IN IF i = 0 THEN <<s>>
     ELSE <<SubSeq(s, 1, i - 1)>> \o Split(SubSeq(s, i + 1, Len(s)), c)

\* array.map(x => x.trim())
MapTrim(a) == [i \in 1..Len(a) |-> Trim(a[i])]

\* s.replace(/^-\s*/, '')
StripBullet_Keep(s) == s
StripBullet(s) ==
  IF s # <<>> /\ Head(s) = "-" THEN TrimStart(Tail(s)) ELSE s

\* array.find(pred): the first element, or undefined
FindLabel(lines, label) ==
  LET hits == {i \in 1..Len(lines) : StartsWith(Trim(lines[i]), label)}
  IN IF hits = {} THEN None
     ELSE Some(lines[CHOOSE i \in hits : \A j \in hits : i <= j])

(***************************************************************************)
(* The labels and fallbacks of parseRecommendation.                        *)
(***************************************************************************)
DescriptionLabel == <<"D","e","s","c","r","i","p","t","i","o","n",":">>
LocationLabel == <<"L","o","c","a","t","i","o","n",":">>
DateLabel == <<"D","a","t","e",":">>
PriceLabel == <<"P","r","i","c","e",":">>
CategoriesLabel == <<"C","a","t","e","g","o","r","i","e","s",":">>

NoDescription ==
  <<"N","o"," ","d","e","s","c","r","i","p","t","i","o","n"," ",
    "a","v","a","i","l","a","b","l","e">>
NoLocation ==
  <<"L","o","c","a","t","i","o","n"," ","n","o","t"," ",
    "s","p","e","c","i","f","i","e","d">>
NoDate ==
  <<"D","a","t","e"," ","n","o","t"," ","s","p","e","c","i","f","i","e","d">>

\* lines.find(l => l.trim().startsWith(label))?.replace(label, '').trim()
LabelValue(lines, label) ==
  LET l == FindLabel(lines, label)
  IN IF IsSome(l) THEN Some(Trim(RemoveFirst(Val(l), label))) ELSE None

\* x || fallback: undefined and the empty string are both falsy
OrElse(m, fallback) ==
  IF IsSome(m) /\ Val(m) # <<>> THEN Val(m) ELSE fallback

\* text.split('\n').filter(line => line.trim() !== '')
NonEmptyLines_NoTrim(t) == SelectSeq(Split(t, "\n"), LAMBDA l : l # <<>>)
NonEmptyLines(t) == SelectSeq(Split(t, "\n"), LAMBDA l : Trim(l) # <<>>)

\* the categories field: ...?.replace('Categories:', '').trim().split(',').map(c => c.trim())
ParseCategories(lines) ==
  LET v == LabelValue(lines, CategoriesLabel)
  IN IF IsSome(v) THEN Some(MapTrim(Split(Val(v), ","))) ELSE None

\* parseRecommendation: None is the null result
parseRecommendation(t) ==
  LET lines == NonEmptyLines(t)
  IN IF Len(lines) < 2 THEN None
     ELSE Some([title |-> Trim(StripBullet(lines[1])),
                description |-> OrElse(LabelValue(lines, DescriptionLabel), NoDescription),
                date |-> OrElse(LabelValue(lines, DateLabel), NoDate),
                location |-> OrElse(LabelValue(lines, LocationLabel), NoLocation),
                price |-> LabelValue(lines, PriceLabel),
                categories |-> ParseCategories(lines),
                relevance_score |-> None])

(***************************************************************************)
(* Card rendering of the structured React UI.                              *)
(***************************************************************************)
\* relevance_score is a number in [0,1], modelled in units of 1/ScoreUnits
ScoreUnits == 1000

\* Number.prototype.toFixed(0) of x / ScoreUnits, x >= 0: the nearest
\* integer, the larger one on a tie
ToFixed0(x) == (2 * x + ScoreUnits) \div (2 * ScoreUnits)

\* {rec.relevance_score && (<div>Relevance: {(rec.relevance_score * 100).toFixed(0)}%</div>)}
\* undefined renders nothing; 0 is falsy and React renders it as the text "0"
RelevanceView(r) ==
  IF ~IsSome(r.relevance_score) THEN [kind |-> "nothing", pct |-> 0]
  ELSE IF Val(r.relevance_score) = 0 THEN [kind |-> "bare zero", pct |-> 0]
  ELSE [kind |-> "percent", pct |-> ToFixed0(Val(r.relevance_score) * 100)]

\* Array.from(new Set(a)): a Set keeps insertion order and ignores repeats
RECURSIVE ArrayFromSet(_)
ArrayFromSet(a) ==
  IF a = <<>> THEN <<>>
  ELSE LET seen == ArrayFromSet(SubSeq(a, 1, Len(a) - 1))
           x == a[Len(a)]
       IN IF \E i \in 1..Len(seen) : seen[i] = x THEN seen ELSE Append(seen, x)

\* {rec.categories && (... Array.from(new Set(rec.categories)).map(...))}
CategoryTags_NoSet(r) == r.categories
CategoryTags(r) ==
  IF IsSome(r.categories) THEN Some(ArrayFromSet(Val(r.categories))) ELSE None

\* one card of the recommendations grid
CardView(r) ==
  [title |-> r.title,
   relevance |-> RelevanceView(r),
   tags |-> CategoryTags(r)]

(***************************************************************************)
(* Inputs of the card specification.                                       *)
(***************************************************************************)
JazzNight == <<"J","a","z","z"," ","N","i","g","h","t">>
Music == <<"M","u","s","i","c">>
Art == <<"A","r","t">>
Fri == <<"F","r","i">>
Sat == <<"S","a","t">>

\* the lines a raw block is made of
LinePool ==
  { <<>>,
    <<" ", "\t">>,
    <<"-", " ">> \o JazzNight,
    JazzNight,
    <<" ", " ", "-", " ">> \o JazzNight \o <<" ">>,
    <<"-">>,
    DateLabel \o <<" ">> \o Fri,
    <<" ">> \o DateLabel \o Sat \o <<"\r">>,
    DateLabel,
    DescriptionLabel \o <<" ">> \o JazzNight,
    LocationLabel \o <<" ">> \o Art,
    PriceLabel \o <<" ", "5">>,
    CategoriesLabel \o <<" ">> \o Music \o <<",", " ">> \o Music \o <<",", " ">> \o Art,
    CategoriesLabel \o <<" ">> \o Music \o <<",", ",", " ">> \o Art \o <<",">>,
    CategoriesLabel }

\* category names of a structured record
CatNames == {Music, Art}

RECURSIVE SeqsUpTo(_, _)
SeqsUpTo(S, n) ==
  IF n = 0 THEN {<<>>}
  ELSE LET shorter == SeqsUpTo(S, n - 1)
       IN shorter \cup {Append(s, x) : s \in {t \in shorter : Len(t) = n - 1}, x \in S}

\* the relevance scores of a structured record: absent, or any value in [0,1]
Scores == {None} \cup {Some(n) : n \in 0..ScoreUnits}

NumLines(t) == Len(Split(t, "\n"))

(***************************************************************************)
(* Values that cross the network boundary.  A recommendations field is an  *)
(* array, a string or missing (undefined).                                 *)
(***************************************************************************)
Arr(items) == [kind |-> "array", items |-> items, chars |-> <<>>]
Str(chars) == [kind |-> "string", items |-> <<>>, chars |-> chars]
Undefined == [kind |-> "undefined", items |-> <<>>, chars |-> <<>>]

\* Array.isArray
IsArray(v) == v.kind = "array"
\* v.length of an array or a string
Length(v) == IF v.kind = "array" THEN Len(v.items) ELSE Len(v.chars)

NotAnArray == <<"n","o","t"," ","a","n"," ","a","r","r","a","y">>
RawText == JazzNight \o <<"\n">> \o DateLabel \o <<" ">> \o Fri

RecValues ==
  { Arr(<<>>), Arr(<<"ev1">>), Arr(<<"ev1", "ev2">>),
    Str(NotAnArray), Str(RawText), Str(<<>>), Undefined }

\* what the backend, or the network, answers to POST /api/recommendations
OkResponses ==
  {[status |-> "ok", recommendations |-> r, error |-> None, message |-> None] :
     r \in RecValues}
ErrorResponses ==
  {[status |-> "error", recommendations |-> Undefined, error |-> b[1], message |-> b[2]] :
     b \in {<<None, None>>, <<Some("backend error"), None>>, <<None, Some("backend message")>>}}
NetworkFailure ==
  [status |-> "network", recommendations |-> Undefined, error |-> None, message |-> None]
\* a body that is not JSON: response.json() rejects
BadJson ==
  [status |-> "badjson", recommendations |-> Undefined, error |-> None, message |-> None]

\* answers seen through axios and through fetch
AxiosResponses == OkResponses \cup ErrorResponses \cup {NetworkFailure}
FetchResponses == AxiosResponses \cup {BadJson}

\* how a request chain ended, by what it was answered
ExitOf(resp) ==
  IF resp.status = "ok"
  THEN IF IsArray(resp.recommendations) THEN "ok list" ELSE "ok not a list"
  ELSE IF resp.status = "error" THEN "non-2xx" ELSE "rejected"

\* user-visible messages are sequences of parts; no message is the empty one
NoMessage == <<>>
MsgZipRequired == <<"Please enter your zip code">>
MsgNoEvents == <<"No events found in your area. Try adjusting your zip code.">>
MsgFetchFailed == <<"Failed to fetch recommendations. Please try again.">>
MsgInvalidFormat == <<"Invalid response format from server">>
MsgNeedInterest == <<"Please enter at least one interest">>
MsgAnErrorOccurred == <<"An error occurred">>
MsgTemplateFailed == <<"An error occurred while fetching recommendations">>
\* messages of errors the runtime raises
MsgStatusCode == "Request failed with status code 500"
MsgNetworkError == "Network Error"
MsgTypeError == "TypeError"
MsgSyntaxError == "SyntaxError"
MsgPositionError == "User denied Geolocation"

\* messages of handleGetLocation in App.tsx
MsgGeoUnsupported == <<"Geolocation is not supported by your browser">>
MsgGeoDenied == <<"Please enable location access to use this feature">>
MsgGeoFailed == <<"Failed to get location information">>
MsgZipNotFound == <<"Could not find ZIP code for your location">>

\* what the reverse-geocoding service may do: the position is refused, the
\* request fails, the body is not JSON, the body has no address, the
\* address has no postcode, the address has the postcode
LocationOutcomes ==
  {"denied", "network", "badjson", "no address", "no postcode", "postcode"}
Postcode == <<"9", "4">>

\* what the user types
ZipInputs == {<<>>, <<" ">>, <<"9", "4">>}
InterestInputs == {<<>>, Music, Music \o <<",", " ">> \o Art}
\* what the user types into the single-interest input of App.tsx
TypedInterests == {<<" ">>, Music, <<" ">> \o Art \o <<" ">>}

\* interests.split(',').map(i => i.trim())
SplitInterests(value) == MapTrim(Split(value, ","))

\* a sequence without its i-th element
RemoveAt(q, i) == SubSeq(q, 1, i - 1) \o SubSeq(q, i + 1, Len(q))

(***************************************************************************)
(* JSON.stringify and JSON.parse of a list of strings, and localStorage of *)
(* frontend/src/App.tsx.                                                   *)
(***************************************************************************)
RECURSIVE JSONEscape(_)
JSONEscape(chars) ==
  IF chars = <<>> THEN <<>>
  ELSE (IF Head(chars) \in {"\"", "\\"} THEN <<"\\", Head(chars)>> ELSE <<Head(chars)>>)
       \o JSONEscape(Tail(chars))

JSONQuote(chars) == <<"\"">> \o JSONEscape(chars) \o <<"\"">>

RECURSIVE JSONJoin(_)
JSONJoin(list) ==
  IF list = <<>> THEN <<>>
  ELSE JSONQuote(Head(list))
       \o (IF Tail(list) = <<>> THEN <<>> ELSE <<",">> \o JSONJoin(Tail(list)))

JSONStringify(list) == <<"[">> \o JSONJoin(list) \o <<"]">>

\* the scan of an array of strings: cur is the string being read, if any
RECURSIVE JSONScan(_, _, _, _)
JSONScan(chars, i, out, cur) ==
  IF i > Len(chars) THEN out
  ELSE IF ~IsSome(cur)
  THEN JSONScan(chars, i + 1, out, IF chars[i] = "\"" THEN Some(<<>>) ELSE None)
  ELSE IF chars[i] = "\\"
  THEN JSONScan(chars, i + 2, out, Some(Append(Val(cur), chars[i + 1])))
  ELSE IF chars[i] = "\""
  THEN JSONScan(chars, i + 1, Append(out, Val(cur)), None)
  ELSE JSONScan(chars, i + 1, out, Some(Append(Val(cur), chars[i])))

JSONParse(chars) == JSONScan(chars, 1, <<>>, None)

(***************************************************************************)
(* frontend/src/services/api.ts and frontend/src/App.tsx                   *)
(***************************************************************************)
\* getRecommendations: the body of a 2xx answer, else a thrown Error whose
\* message is 'Failed to get recommendations: ' + (data?.message || error.message)
getRecommendations(resp) ==
  IF resp.status = "ok"
  THEN [threw |-> FALSE, message |-> NoMessage, recommendations |-> resp.recommendations]
  ELSE [threw |-> TRUE,
        message |-> <<"Failed to get recommendations: ",
                      IF resp.status = "error"
                      THEN IF IsSome(resp.message) THEN Val(resp.message) ELSE MsgStatusCode
                      ELSE MsgNetworkError>>,
        recommendations |-> Undefined]

\* the save effect: both entries of localStorage are written
AppSaved(preferences) ==
  [zipCode |-> Some(preferences.zip_code),
   interests |-> Some(JSONStringify(preferences.interests))]

\* the state of the mounted component in a browser that had nothing saved:
\* the useState initial values, and what the save effect of the first
\* render wrote; lookups are the handleGetLocation calls in flight, each
\* the interests of the preferences that its closure captured (the zip code
\* captured is never read: the callback replaces it); exit tells how the last request
\* chain ended, done how the last location lookup or mount ended, cause
\* what that step was given
AppInit ==
  [preferences |-> [zip_code |-> <<>>, interests |-> <<>>],
   events |-> Arr(<<>>),
   loading |-> FALSE,
   error |-> NoMessage,
   interestsInput |-> <<>>,
   storage |-> AppSaved([zip_code |-> <<>>, interests |-> <<>>]),
   lookups |-> <<>>,
   pending |-> <<>>,
   crashed |-> FALSE,
   exit |-> "none",
   done |-> "none",
   cause |-> None]

\* setPreferences without the save effect
AppCommit_NoSave(preferences) ==
  [app EXCEPT !.preferences = preferences, !.exit = "none", !.done = "none", !.cause = None]

\* setPreferences(preferences) and the render that follows: the save effect
\* runs when preferences.zip_code or preferences.interests changed (a new
\* array with the same elements makes it write the same values again)
AppCommit(preferences) ==
  [app EXCEPT !.preferences = preferences,
              !.storage = IF preferences # app.preferences
                          THEN AppSaved(preferences)
                          ELSE app.storage,
              !.exit = "none",
              !.done = "none",
              !.cause = None]

\* {events.length > 0 && (... events.map(...))} raises a TypeError for
\* undefined (no length) and for a non-empty string (no map)
AppRenderThrows(events) ==
  \/ events.kind = "undefined"
  \/ events.kind = "string" /\ Length(events) > 0

\* onChange of the zip code input
AppSetZip ==
  /\ variant = "app"
  /\ ~app.crashed
  /\ \E z \in ZipInputs :
       /\ z # app.preferences.zip_code
       /\ app' = AppCommit([app.preferences EXCEPT !.zip_code = z])
  /\ UNCHANGED <<text, rec, view, variant, p0, popup, tpl>>

\* handleSubmit when the zip code is blank: message, loading off, return
AppValidationReject ==
  [app EXCEPT !.loading = FALSE, !.error = MsgZipRequired, !.exit = "validation",
              !.done = "none", !.cause = None]

\* handleSubmit up to its await; the submit button is disabled while
\* loading and the zip code input is required
AppSubmit ==
  /\ variant = "app"
  /\ ~app.crashed
  /\ ~app.loading
  /\ app.preferences.zip_code # <<>>
  /\ app' = IF Trim(app.preferences.zip_code) = <<>>
            THEN AppValidationReject
            ELSE [app EXCEPT !.loading = TRUE,
                             !.error = NoMessage,
                             !.pending = <<app.preferences>>,
                             !.exit = "none", !.done = "none", !.cause = None]
  /\ UNCHANGED <<text, rec, view, variant, p0, popup, tpl>>

\* handleSubmit after its await, without the test of an empty list
AppAfterAwait_NoEmptyTest(resp) ==
  LET got == getRecommendations(resp)
      r == got.recommendations
      events == IF got.threw THEN app.events ELSE r
      error == IF got.threw THEN got.message
               ELSE IF r.kind = "undefined" THEN <<MsgTypeError>>
               ELSE app.error
  IN [app EXCEPT !.events = events,
                 !.error = error,
                 !.loading = FALSE,
                 !.pending = <<>>,
                 !.crashed = AppRenderThrows(events),
                 !.exit = ExitOf(resp),
                 !.done = "none",
                 !.cause = Some(resp)]

\* handleSubmit after its await: try / catch / finally, then the render
AppAfterAwait(resp) ==
  LET got == getRecommendations(resp)
      r == got.recommendations
      events == IF got.threw THEN app.events ELSE r
      error == IF got.threw THEN got.message
               ELSE IF r.kind = "undefined" THEN <<MsgTypeError>>
               ELSE IF Length(r) = 0 THEN MsgNoEvents
               ELSE app.error
  IN [app EXCEPT !.events = events,
                 !.error = error,
                 !.loading = FALSE,
                 !.pending = <<>>,
                 !.crashed = AppRenderThrows(events),
                 !.exit = ExitOf(resp),
                 !.done = "none",
                 !.cause = Some(resp)]

AppComplete ==
  /\ variant = "app"
  /\ app.pending # <<>>
  /\ \E resp \in AxiosResponses : app' = AppAfterAwait(resp)
  /\ UNCHANGED <<text, rec, view, variant, p0, popup, tpl>>

\* the user types into the single-interest input, then handleAddInterest
\* (the button or the Enter key): a functional update of the current list
AppAddInterest ==
  /\ variant = "app"
  /\ ~app.crashed
  /\ Len(app.preferences.interests) < MaxInterests
  /\ \E v \in TypedInterests :
       app' = IF Trim(v) # <<>>
              THEN [AppCommit([app.preferences EXCEPT !.interests = Append(@, Trim(v))])
                      EXCEPT !.interestsInput = <<>>]
              ELSE [app EXCEPT !.interestsInput = v, !.exit = "none", !.done = "none", !.cause = None]
  /\ UNCHANGED <<text, rec, view, variant, p0, popup, tpl>>

\* the remove button of the k-th tag:
\* handleRemoveInterest(preferences.interests.indexOf(interest))
AppRemoveInterest ==
  /\ variant = "app"
  /\ ~app.crashed
  /\ \E k \in 1..Len(app.preferences.interests) :
       LET interests == app.preferences.interests
           index == IndexOf(interests, <<interests[k]>>)
       IN app' = AppCommit([app.preferences EXCEPT !.interests = RemoveAt(@, index)])
  /\ UNCHANGED <<text, rec, view, variant, p0, popup, tpl>>

\* handleGetLocation up to getCurrentPosition; the button is never disabled
AppGetLocation ==
  /\ variant = "app"
  /\ ~app.crashed
  /\ Len(app.lookups) < MaxLookups
  /\ \E supported \in BOOLEAN :
       app' = IF supported
              THEN [app EXCEPT !.lookups = Append(@, app.preferences.interests),
                               !.exit = "none",
                               !.done = "none",
                               !.cause = None]
              ELSE [app EXCEPT !.error = MsgGeoUnsupported,
                               !.exit = "none",
                               !.done = "location failed",
                               !.cause = Some([outcome |-> "unsupported",
                                               interests |-> app.preferences.interests])]
  /\ UNCHANGED <<text, rec, view, variant, p0, popup, tpl>>

\* the callbacks of getCurrentPosition: the fetch, its json(), and
\* setPreferences({ ...preferences, zip_code: zipCode }) on the preferences
\* that the closure captured; an unmounted component takes no update
AppAfterLocation(i, outcome) ==
  LET preferences == [zip_code |-> app.preferences.zip_code, interests |-> app.lookups[i]]
      rest == RemoveAt(app.lookups, i)
      before == [outcome |-> outcome, interests |-> app.preferences.interests]
  IN IF app.crashed
     THEN [app EXCEPT !.lookups = rest, !.exit = "none", !.done = "none", !.cause = None]
     ELSE IF outcome = "postcode"
     THEN [AppCommit([preferences EXCEPT !.zip_code = Postcode])
             EXCEPT !.lookups = rest, !.done = "located", !.cause = Some(before)]
     ELSE [app EXCEPT !.error = IF outcome = "denied" THEN MsgGeoDenied
                                ELSE IF outcome \in {"network", "badjson"} THEN MsgGeoFailed
                                ELSE MsgZipNotFound,
                      !.lookups = rest,
                      !.exit = "none",
                      !.done = "location failed",
                      !.cause = Some(before)]

AppLocated ==
  /\ variant = "app"
  /\ \E i \in 1..Len(app.lookups) :
       \E outcome \in LocationOutcomes : app' = AppAfterLocation(i, outcome)
  /\ UNCHANGED <<text, rec, view, variant, p0, popup, tpl>>

\* the load effect with the interests entry read first
AppLoaded_ZipLast(storage) ==
  LET initial == AppInit.preferences
      savedZipCode == storage.zipCode
      savedInterests == storage.interests
  IN IF IsSome(savedZipCode) /\ Val(savedZipCode) # <<>>
     THEN [initial EXCEPT !.zip_code = Val(savedZipCode)]
     ELSE IF IsSome(savedInterests) /\ Val(savedInterests) # <<>>
     THEN [initial EXCEPT !.interests = JSONParse(Val(savedInterests))]
     ELSE initial

\* the load effect: each setPreferences replaces the state by a copy of the
\* preferences of the first render with one field changed, so the last
\* call decides
AppLoaded(storage) ==
  LET initial == AppInit.preferences
      savedZipCode == storage.zipCode
      savedInterests == storage.interests
  IN IF IsSome(savedInterests) /\ Val(savedInterests) # <<>>
     THEN [initial EXCEPT !.interests = JSONParse(Val(savedInterests))]
     ELSE IF IsSome(savedZipCode) /\ Val(savedZipCode) # <<>>
     THEN [initial EXCEPT !.zip_code = Val(savedZipCode)]
     ELSE initial

\* the page is loaded again: the component mounts, the load effect and the
\* save effect run on the first render, then the save effect runs again if
\* the load effect changed the preferences
AppMounted(storage) ==
  LET initial == AppInit.preferences
      loaded == AppLoaded(storage)
      first == AppSaved(initial)
  IN [AppInit EXCEPT !.preferences = loaded,
                     !.storage = IF loaded # initial THEN AppSaved(loaded) ELSE first,
                     !.done = "mounted",
                     !.cause = Some(storage)]

AppReload ==
  /\ variant = "app"
  /\ app' = AppMounted(app.storage)
  /\ UNCHANGED <<text, rec, view, variant, p0, popup, tpl>>

(***************************************************************************)
(* The structured React UI (the second App component).                     *)
(***************************************************************************)
\* the value undefined where the code expects a string
JsUndefined == <<"undefined">>

\* the state of the mounted component: the useState initial values, and the
\* location lookup that the mount effect started; zipShown is the text in
\* the zip code input, which React leaves as it is when its value becomes
\* undefined; done tells how the lookup ended
P0Init ==
  [zipCode |-> <<>>,
   zipShown |-> <<>>,
   userLocation |-> <<>>,
   locating |-> TRUE,
   interests |-> <<>>,
   recommendations |-> Arr(<<>>),
   loading |-> FALSE,
   error |-> NoMessage,
   pending |-> <<>>,
   exit |-> "none",
   done |-> "none",
   cause |-> None]

\* onChange of the two inputs
P0SetZip ==
  /\ variant = "p0"
  /\ \E z \in ZipInputs :
       /\ z # p0.zipShown
       /\ p0' = [p0 EXCEPT !.zipCode = z, !.zipShown = z,
                           !.exit = "none", !.done = "none", !.cause = None]
  /\ UNCHANGED <<text, rec, view, variant, app, popup, tpl>>

P0SetInterests ==
  /\ variant = "p0"
  /\ \E v \in InterestInputs :
       /\ v # p0.interests
       /\ p0' = [p0 EXCEPT !.interests = v,
                           !.exit = "none", !.done = "none", !.cause = None]
  /\ UNCHANGED <<text, rec, view, variant, app, popup, tpl>>

\* handleSubmit up to its await; the button is disabled while loading and
\* both inputs are required
P0Submit ==
  /\ variant = "p0"
  /\ ~p0.loading
  /\ p0.zipShown # <<>>
  /\ p0.interests # <<>>
  /\ p0' = [p0 EXCEPT !.loading = TRUE,
                      !.error = NoMessage,
                      !.recommendations = Arr(<<>>),
                      !.pending = <<[zip_code |-> p0.zipCode,
                                     interests |-> SplitInterests(p0.interests)]>>,
                      !.exit = "none", !.done = "none", !.cause = None]
  /\ UNCHANGED <<text, rec, view, variant, app, popup, tpl>>

\* handleSubmit after its await; axios rejects on a non-2xx status
P0AfterAwait(resp) ==
  LET r == resp.recommendations
  IN [p0 EXCEPT !.recommendations =
                    IF resp.status = "ok" /\ IsArray(r) THEN r ELSE p0.recommendations,
                !.error = IF resp.status # "ok" THEN MsgFetchFailed
                          ELSE IF IsArray(r) THEN p0.error
                          ELSE MsgInvalidFormat,
                !.loading = FALSE,
                !.pending = <<>>,
                !.exit = ExitOf(resp),
                !.done = "none",
                !.cause = Some(resp)]

P0Complete ==
  /\ variant = "p0"
  /\ p0.pending # <<>>
  /\ \E resp \in AxiosResponses : p0' = P0AfterAwait(resp)
  /\ UNCHANGED <<text, rec, view, variant, app, popup, tpl>>

\* the mount effect: the callbacks of getCurrentPosition, the axios.get of
\* the reverse geocoding, then
\*   const zip = response.data.address.postcode
\*   setUserLocation(zip); setZipCode(zip)
\* every failure goes to console.error only; without navigator.geolocation
\* the effect does nothing
P0AfterLocation(outcome) ==
  LET ended == [p0 EXCEPT !.locating = FALSE,
                          !.exit = "none",
                          !.done = IF outcome = "postcode" THEN "located"
                                   ELSE "location failed",
                          !.cause = Some([outcome |-> outcome])]
  IN IF outcome = "postcode"
     THEN [ended EXCEPT !.userLocation = Postcode,
                        !.zipCode = Postcode,
                        !.zipShown = Postcode]
     ELSE IF outcome = "no postcode"
     THEN [ended EXCEPT !.userLocation = JsUndefined, !.zipCode = JsUndefined]
     ELSE ended

P0Located ==
  /\ variant = "p0"
  /\ p0.locating
  /\ \E outcome \in LocationOutcomes \cup {"unsupported"} :
       p0' = P0AfterLocation(outcome)
  /\ UNCHANGED <<text, rec, view, variant, app, popup, tpl>>

(***************************************************************************)
(* extension/popup.js: the click handler of the getRecommendations button. *)
(* Nothing disables the button, so several invocations may be in flight;   *)
(* each is a record of where it waits and of what it has gathered.         *)
(***************************************************************************)
PopupInit ==
  [interests |-> <<>>,
   loading |-> FALSE,
   resultsShown |-> FALSE,
   html |-> <<>>,
   alert |-> NoMessage,
   inv |-> <<>>,
   exit |-> "none",
   cause |-> None]

\* text.replace(/\n/g, '<br>')
ReplaceNewlines(chars) ==
  [i \in 1..Len(chars) |-> IF chars[i] = "\n" THEN "<br>" ELSE chars[i]]

\* the user edits the interests input
PopupSetInterests ==
  /\ variant = "popup"
  /\ \E v \in InterestInputs :
       /\ v # popup.interests
       /\ popup' = [popup EXCEPT !.interests = v, !.exit = "none", !.cause = None]
  /\ UNCHANGED <<text, rec, view, variant, app, p0, tpl>>

\* the handler up to its first await
PopupClick ==
  /\ variant = "popup"
  /\ Len(popup.inv) < MaxInFlight
  /\ LET interests == SplitInterests(popup.interests)
     IN popup' = IF Len(interests) = 0
                 THEN [popup EXCEPT !.alert = MsgNeedInterest, !.exit = "validation", !.cause = None]
                 ELSE [popup EXCEPT !.loading = TRUE,
                                    !.resultsShown = FALSE,
                                    !.inv = Append(popup.inv,
                                                   [pc |-> "position",
                                                    zip_code |-> None,
                                                    interests |-> interests]),
                                    !.exit = "none", !.cause = None]
  /\ UNCHANGED <<text, rec, view, variant, app, p0, tpl>>

\* catch (error) { alert('Error: ' + error.message) } finally { loading off }
PopupCatch_KeepsLoading(i, message, exit) ==
  [popup EXCEPT !.alert = <<"Error: ", message>>,
                !.inv = RemoveAt(popup.inv, i),
                !.exit = exit,
                !.cause = None]
PopupCatch(i, message, exit) ==
  [popup EXCEPT !.alert = <<"Error: ", message>>,
                !.loading = FALSE,
                !.inv = RemoveAt(popup.inv, i),
                !.exit = exit,
                !.cause = None]

\* await of navigator.geolocation.getCurrentPosition(resolve, reject)
PopupPosition ==
  /\ variant = "popup"
  /\ \E i \in 1..Len(popup.inv) :
       /\ popup.inv[i].pc = "position"
       /\ \E outcome \in {"granted", "denied", "unsupported"} :
            popup' = IF outcome = "granted"
                     THEN [popup EXCEPT !.inv[i].pc = "geocode", !.exit = "none", !.cause = None]
                     ELSE PopupCatch(i,
                                     IF outcome = "denied" THEN MsgPositionError
                                     ELSE MsgTypeError,
                                     "rejected")
  /\ UNCHANGED <<text, rec, view, variant, app, p0, tpl>>

\* awaits of the reverse-geocoding fetch and of its json(), then
\* const zipCode = data.address.postcode
PopupGeocode ==
  /\ variant = "popup"
  /\ \E i \in 1..Len(popup.inv) :
       /\ popup.inv[i].pc = "geocode"
       /\ \E outcome \in {"network", "badjson", "no address", "no postcode", "postcode"} :
            popup' =
              IF outcome = "postcode"
              THEN [popup EXCEPT !.inv[i].pc = "recommend",
                                 !.inv[i].zip_code = Some(<<"9", "4">>),
                                 !.exit = "none", !.cause = None]
              ELSE IF outcome = "no postcode"
              THEN [popup EXCEPT !.inv[i].pc = "recommend",
                                 !.inv[i].zip_code = None,
                                 !.exit = "none", !.cause = None]
              ELSE PopupCatch(i,
                              IF outcome = "network" THEN MsgNetworkError
                              ELSE IF outcome = "badjson" THEN MsgSyntaxError
                              ELSE MsgTypeError,
                              "rejected")
  /\ UNCHANGED <<text, rec, view, variant, app, p0, tpl>>

\* awaits of the recommendations fetch and of its json(), the ok test, the
\* catch and the finally
PopupAfterFetch(i, resp) ==
  LET r == resp.recommendations
  IN IF resp.status = "network"
     THEN [PopupCatch(i, MsgNetworkError, ExitOf(resp)) EXCEPT !.cause = Some(resp)]
     ELSE IF resp.status = "badjson"
     THEN [PopupCatch(i, MsgSyntaxError, ExitOf(resp)) EXCEPT !.cause = Some(resp)]
     ELSE IF resp.status = "error"
     THEN [popup EXCEPT !.alert = IF IsSome(resp.error) THEN <<Val(resp.error)>>
                                  ELSE MsgAnErrorOccurred,
                        !.loading = FALSE,
                        !.inv = RemoveAt(popup.inv, i),
                        !.exit = ExitOf(resp),
                 !.cause = Some(resp)]
     ELSE IF r.kind = "string"
     THEN [popup EXCEPT !.html = ReplaceNewlines(r.chars),
                        !.resultsShown = TRUE,
                        !.loading = FALSE,
                        !.inv = RemoveAt(popup.inv, i),
                        !.exit = "ok text",
                 !.cause = Some(resp)]
     ELSE [PopupCatch(i, MsgTypeError, ExitOf(resp)) EXCEPT !.cause = Some(resp)]

PopupRecommend ==
  /\ variant = "popup"
  /\ \E i \in 1..Len(popup.inv) :
       /\ popup.inv[i].pc = "recommend"
       /\ \E resp \in FetchResponses : popup' = PopupAfterFetch(i, resp)
  /\ UNCHANGED <<text, rec, view, variant, app, p0, tpl>>

(***************************************************************************)
(* The HTML template: the submit handler of recommendationForm.            *)
(***************************************************************************)
TplInit ==
  [zipCode |-> <<>>,
   interests |-> <<>>,
   loading |-> FALSE,
   resultsShown |-> FALSE,
   html |-> <<>>,
   alert |-> NoMessage,
   inv |-> <<>>,
   exit |-> "none",
   cause |-> None]

TplSetZip ==
  /\ variant = "tpl"
  /\ \E z \in ZipInputs :
       /\ z # tpl.zipCode
       /\ tpl' = [tpl EXCEPT !.zipCode = z, !.exit = "none", !.cause = None]
  /\ UNCHANGED <<text, rec, view, variant, app, p0, popup>>

TplSetInterests ==
  /\ variant = "tpl"
  /\ \E v \in InterestInputs :
       /\ v # tpl.interests
       /\ tpl' = [tpl EXCEPT !.interests = v, !.exit = "none", !.cause = None]
  /\ UNCHANGED <<text, rec, view, variant, app, p0, popup>>

\* the handler up to its await; both inputs are required, the button is
\* never disabled
TplSubmit ==
  /\ variant = "tpl"
  /\ tpl.zipCode # <<>>
  /\ tpl.interests # <<>>
  /\ Len(tpl.inv) < MaxInFlight
  /\ tpl' = [tpl EXCEPT !.loading = TRUE,
                        !.resultsShown = FALSE,
                        !.inv = Append(tpl.inv,
                                       [zip_code |-> tpl.zipCode,
                                        interests |-> SplitInterests(tpl.interests)]),
                        !.exit = "none", !.cause = None]
  /\ UNCHANGED <<text, rec, view, variant, app, p0, popup>>

\* catch (error) { alert(...) } finally { loading hidden }
TplCatch(i, exit) ==
  [tpl EXCEPT !.alert = MsgTemplateFailed,
              !.loading = FALSE,
              !.inv = RemoveAt(tpl.inv, i),
              !.exit = exit,
                !.cause = None]

\* the handler after its awaits
TplAfterFetch(i, resp) ==
  LET r == resp.recommendations
  IN IF resp.status \in {"network", "badjson"}
     THEN [TplCatch(i, ExitOf(resp)) EXCEPT !.cause = Some(resp)]
     ELSE IF resp.status = "error"
     THEN [tpl EXCEPT !.alert = IF IsSome(resp.error) THEN <<Val(resp.error)>>
                                ELSE MsgAnErrorOccurred,
                      !.loading = FALSE,
                      !.inv = RemoveAt(tpl.inv, i),
                      !.exit = ExitOf(resp),
                 !.cause = Some(resp)]
     ELSE IF r.kind = "string"
     THEN [tpl EXCEPT !.html = ReplaceNewlines(r.chars),
                      !.resultsShown = TRUE,
                      !.loading = FALSE,
                      !.inv = RemoveAt(tpl.inv, i),
                      !.exit = "ok text",
                 !.cause = Some(resp)]
     ELSE [TplCatch(i, ExitOf(resp)) EXCEPT !.cause = Some(resp)]

TplComplete ==
  /\ variant = "tpl"
  /\ \E i \in 1..Len(tpl.inv) :
       \E resp \in FetchResponses : tpl' = TplAfterFetch(i, resp)
  /\ UNCHANGED <<text, rec, view, variant, app, p0, popup>>

(***************************************************************************)
(* The user interface specification: one of the four variants is deployed. *)
(***************************************************************************)
Variants == {"app", "p0", "popup", "tpl"}

CardsIdle ==
  /\ text = None
  /\ rec = [from |-> "nothing", value |-> None]
  /\ view = None

Init ==
  /\ variant \in Variants
  /\ app = AppInit
  /\ p0 = P0Init
  /\ popup = PopupInit
  /\ tpl = TplInit
  /\ CardsIdle

Next ==
  \/ AppSetZip
  \/ AppSubmit
  \/ AppComplete
  \/ AppGetLocation
  \/ AppLocated
  \/ P0SetZip
  \/ P0SetInterests
  \/ P0Submit
  \/ P0Complete
  \/ P0Located
  \/ PopupSetInterests
  \/ PopupClick
  \/ PopupPosition
  \/ PopupGeocode
  \/ PopupRecommend
  \/ TplSetZip
  \/ TplSetInterests
  \/ TplSubmit
  \/ TplComplete

Spec == Init /\ [][Next]_vars

(***************************************************************************)
(* The preferences of App.tsx: the zip code, the interest list, their copy *)
(* in localStorage, the location lookup and the reload of the page.        *)
(***************************************************************************)
InitPrefs ==
  /\ variant = "app"
  /\ app = AppInit
  /\ p0 = P0Init
  /\ popup = PopupInit
  /\ tpl = TplInit
  /\ CardsIdle

NextPrefs ==
  \/ AppSetZip
  \/ AppAddInterest
  \/ AppRemoveInterest
  \/ AppGetLocation
  \/ AppLocated
  \/ AppReload

SpecPrefs == InitPrefs /\ [][NextPrefs]_vars

(***************************************************************************)
(* Card specification: a raw block arrives line by line and is parsed, or  *)
(* the backend sends a structured record; the record is rendered.          *)
(***************************************************************************)
UiIdle ==
  /\ variant = "none"
  /\ app = AppInit
  /\ p0 = P0Init
  /\ popup = PopupInit
  /\ tpl = TplInit

InitCards ==
  /\ CardsIdle
  /\ UiIdle

ReceiveLine ==
  /\ rec.from = "nothing"
  /\ IsSome(text) => NumLines(Val(text)) < MaxLines
  /\ \E l \in LinePool :
       text' = IF IsSome(text) THEN Some(Val(text) \o <<"\n">> \o l) ELSE Some(l)
  /\ UNCHANGED <<rec, view, variant, app, p0, popup, tpl>>

ParseBlock ==
  /\ rec.from = "nothing"
  /\ IsSome(text)
  /\ rec' = [from |-> "parse", value |-> parseRecommendation(Val(text))]
  /\ UNCHANGED <<text, view, variant, app, p0, popup, tpl>>

\* the structured records the backend may send
StructuredRecords ==
  [title : {JazzNight},
   description : {NoDescription},
   date : {Fri},
   location : {Art},
   price : {None},
   categories : {None} \cup {Some(c) : c \in SeqsUpTo(CatNames, MaxCats)},
   relevance_score : Scores]

ReceiveStructured ==
  /\ rec.from = "nothing"
  /\ text = None
  /\ \E r \in StructuredRecords : rec' = [from |-> "backend", value |-> Some(r)]
  /\ UNCHANGED <<text, view, variant, app, p0, popup, tpl>>

RenderCard ==
  /\ IsSome(rec.value)
  /\ view = None
  /\ view' = Some(CardView(Val(rec.value)))
  /\ UNCHANGED <<text, rec, variant, app, p0, popup, tpl>>

NextCards ==
  \/ ReceiveLine
  \/ ParseBlock
  \/ ReceiveStructured
  \/ RenderCard

SpecCards == InitCards /\ [][NextCards]_vars

(***************************************************************************)
(* Properties of the submit handlers, checked under Spec.                  *)
(***************************************************************************)
\* C1: in the two variants that expect a structured list, a successful
\* response whose recommendations field is not an array ends with the
\* format-error message shown and the results list empty; the results state
\* never holds a non-list value and no exception escapes handler or render.
C1_NonListGivesFormatError ==
  /\ IsArray(app.events)
  /\ ~app.crashed
  /\ app.exit = "ok not a list" =>
       app.error = MsgInvalidFormat /\ app.events = Arr(<<>>)
  /\ IsArray(p0.recommendations)
  /\ p0.exit = "ok not a list" =>
       p0.error = MsgInvalidFormat /\ p0.recommendations = Arr(<<>>)

\* C2: whenever a submit handler's request chain has finished, by whatever
\* exit path (success, non-2xx or format error, thrown exception or rejected
\* promise, validation rejection), the loading indicator is off.
C2_LoadingOffAfterExit ==
  /\ app.exit # "none" => ~app.loading
  /\ p0.exit # "none" => ~p0.loading
  /\ popup.exit # "none" => ~popup.loading
  /\ tpl.exit # "none" => ~tpl.loading

\* the popup handler left through its catch block after a rejected promise
C2_Witness ==
  /\ variant = "popup"
  /\ popup.exit = "rejected"
  /\ popup.alert = <<"Error: ", MsgPositionError>>
  /\ ~popup.loading

\* C3: while a recommendations request is in flight the loading indicator
\* is shown and the submit action cannot be triggered again: at most one
\* request is in flight and the indicator is never hidden while a request
\* is pending, in App.tsx, popup.js and the HTML template alike.
C3_OneRequestAndLoadingWhilePending ==
  /\ Len(app.pending) <= 1
  /\ app.pending # <<>> => app.loading
  /\ Len(popup.inv) <= 1
  /\ popup.inv # <<>> => popup.loading
  /\ Len(tpl.inv) <= 1
  /\ tpl.inv # <<>> => tpl.loading

(***************************************************************************)
(* Properties of parseRecommendation and of the card rendering, checked    *)
(* under SpecCards.  The helpers below read the raw text position by       *)
(* position, without the parser's own split, filter and find.              *)
(***************************************************************************)
\* positions of text t that hold a character other than white space
Ink(t) == {i \in 1..Len(t) : t[i] \notin WhiteSpace}

\* first and last position of the line of t that holds position i
LineStart(t, i) ==
  CHOOSE j \in 1..i :
    /\ \A k \in j..(i - 1) : t[k] # "\n"
    /\ j = 1 \/ t[j - 1] = "\n"
LineEnd(t, i) ==
  CHOOSE j \in i..Len(t) :
    /\ \A k \in (i + 1)..j : t[k] # "\n"
    /\ j = Len(t) \/ t[j + 1] = "\n"

\* number of lines of t that are not empty after trimming: a scan from
\* position i on, inked telling whether the current line already counted
RECURSIVE NonBlankFrom(_, _, _)
NonBlankFrom(t, i, inked) ==
  IF i > Len(t) THEN 0
  ELSE IF t[i] = "\n" THEN NonBlankFrom(t, i + 1, FALSE)
  ELSE IF t[i] \notin WhiteSpace /\ ~inked THEN 1 + NonBlankFrom(t, i + 1, TRUE)
  ELSE NonBlankFrom(t, i + 1, inked)
NonBlankLineCount(t) == NonBlankFrom(t, 1, FALSE)

\* the first line of t that is not empty after trimming (t has one)
FirstNonBlankLine(t) ==
  LET i == CHOOSE k \in Ink(t) : \A m \in Ink(t) : k <= m
  IN SubSeq(t, LineStart(t, i), LineEnd(t, i))

Parsed == rec.from = "parse"
Accepted == rec.from = "parse" /\ IsSome(rec.value)

\* C4: parseRecommendation returns null exactly when the block has fewer
\* than 2 lines that are non-empty after trimming; any block with at least 2
\* such lines yields a record.
C4_NullIffFewerThanTwoLines ==
  Parsed => (rec.value = None <=> NonBlankLineCount(Val(text)) < 2)

\* a block of three raw lines, only one of them non-blank, was rejected
C4_Witness ==
  /\ Parsed
  /\ rec.value = None
  /\ NumLines(Val(text)) = 3
  /\ NonBlankLineCount(Val(text)) = 1

\* the lines after the title line
RestLines(t) == Tail(NonEmptyLines(t))

\* C5: each of the five labels is looked up only among the lines after the
\* title line, the field coming from the first such line whose trimmed
\* content starts with "<Label>:"; the title line is never a label line.
C5_LabelsOnlyAfterTitle ==
  Accepted =>
    LET r == Val(rec.value)
        rest == RestLines(Val(text))
    IN /\ r.description = OrElse(LabelValue(rest, DescriptionLabel), NoDescription)
       /\ r.location = OrElse(LabelValue(rest, LocationLabel), NoLocation)
       /\ r.date = OrElse(LabelValue(rest, DateLabel), NoDate)
       /\ r.price = LabelValue(rest, PriceLabel)
       /\ r.categories = ParseCategories(rest)

\* C6: the categories list is the Categories text split on commas, each
\* piece trimmed and every empty piece dropped: it holds no empty string.
C6_NoEmptyCategory ==
  (Accepted /\ IsSome(Val(rec.value).categories)) =>
    \A i \in 1..Len(Val(Val(rec.value).categories)) :
      Val(Val(rec.value).categories)[i] # <<>>

\* the field of a record as C7 states it: the text after the colon of the
\* label line when a line carries the label, the fallback when none does
FieldOrFallback(t, label, fallback) ==
  LET v == LabelValue(NonEmptyLines(t), label)
  IN IF IsSome(v) THEN Val(v) ELSE fallback

\* C7: every returned record has a non-empty title, and its description,
\* location and date are the label line's text after the colon (trimmed)
\* when such a line is found and exactly the fallbacks when none is.
C7_TitlePresentAndFallbacks ==
  Accepted =>
    LET r == Val(rec.value)
        t == Val(text)
    IN /\ r.title # <<>>
       /\ r.description = FieldOrFallback(t, DescriptionLabel, NoDescription)
       /\ r.location = FieldOrFallback(t, LocationLabel, NoLocation)
       /\ r.date = FieldOrFallback(t, DateLabel, NoDate)

\* C8: the title of an accepted block is its first non-empty line with a
\* leading "-" and the white space after it removed and the rest trimmed;
\* a first line "- Jazz Night" gives exactly "Jazz Night".
C8_TitleStripsBullet ==
  Accepted =>
    LET l == FirstNonBlankLine(Val(text))
        title == Val(rec.value).title
    IN /\ title = IF l[1] = "-" THEN Trim(Tail(l)) ELSE Trim(l)
       /\ l = <<"-", " ">> \o JazzNight => title = JazzNight

\* a block whose first non-empty line is "- Jazz Night", after a blank line
C8_Witness ==
  /\ Accepted
  /\ NumLines(Val(text)) = 3
  /\ NonBlankLineCount(Val(text)) = 2
  /\ FirstNonBlankLine(Val(text)) = <<"-", " ">> \o JazzNight
  /\ Val(rec.value).title = JazzNight

\* position of the first occurrence of x in a
FirstAt(a, x) == CHOOSE i \in 1..Len(a) : a[i] = x /\ \A j \in 1..(i - 1) : a[j] # x

Rendered == IsSome(view) /\ IsSome(rec.value)

\* C9: the rendered category tags are the record's categories with
\* duplicates removed, in the order of first appearance: every distinct
\* category exactly once; "Music, Music, Art" renders ["Music", "Art"].
C9_TagsDedupedInOrder ==
  (Rendered /\ IsSome(Val(rec.value).categories)) =>
    LET cats == Val(Val(rec.value).categories)
        tags == Val(Val(view).tags)
    IN /\ IsSome(Val(view).tags)
       /\ {tags[i] : i \in 1..Len(tags)} = {cats[i] : i \in 1..Len(cats)}
       /\ \A i, j \in 1..Len(tags) :
            i < j => tags[i] # tags[j] /\ FirstAt(cats, tags[i]) < FirstAt(cats, tags[j])
       /\ cats = <<Music, Music, Art>> => tags = <<Music, Art>>

\* the card of a parsed block with the line "Categories: Music, Music, Art"
C9_Witness ==
  /\ Rendered
  /\ Parsed
  /\ Val(rec.value).categories = Some(<<Music, Music, Art>>)
  /\ Val(view).tags = Some(<<Music, Art>>)

\* C10: for a record whose relevance_score is present, any value in [0,1]
\* with 0 and 1 included, the card shows score*100 rounded to the nearest
\* integer as a percentage within 0..100; 0.876 shows "88%".
C10_ScoreShownAsPercent ==
  (Rendered /\ IsSome(Val(rec.value).relevance_score)) =>
    LET score == Val(Val(rec.value).relevance_score)
        shown == Val(view).relevance
    IN /\ shown.kind = "percent"
       /\ shown.pct \in 0..100
       /\ 2 * (shown.pct * ScoreUnits - score * 100) <= ScoreUnits
       /\ 2 * (score * 100 - shown.pct * ScoreUnits) <= ScoreUnits
       /\ score = 876 => shown.pct = 88

(***************************************************************************)
(* Claims about the messages and the records of the submit handlers.       *)
(***************************************************************************)
\* C11: in App.tsx handleSubmit a successful answer whose recommendations
\* list is empty ends with the dedicated "No events found" message, not
\* with the generic fetch-failure message, with an empty results list and
\* with loading off.
C11_EmptyListGivesNoEvents ==
  (/\ app.exit = "ok list"
   /\ Val(app.cause).recommendations = Arr(<<>>))
    => /\ app.error = MsgNoEvents
       /\ app.error # MsgFetchFailed
       /\ app.events = Arr(<<>>)
       /\ ~app.loading

\* an earlier request had filled the list and set no message; the answer
\* to the next one is the empty list
C11_Witness ==
  /\ app.exit = "ok list"
  /\ Val(app.cause).recommendations = Arr(<<>>)
  /\ app.error = MsgNoEvents
  /\ app.events = Arr(<<>>)
  /\ ~app.loading

\* C12: the location resolver never fails silently: in App.tsx, in the
\* structured React UI and in popup.js alike, when geolocation is denied or
\* unsupported, when the reverse geocoding fails, or when its answer has no
\* address.postcode, an error is shown to the user ("ZIP code not found"
\* for the missing postcode), and no undefined or blank zip code is written
\* into the zip field or sent to the recommendations endpoint.
C12_LocationFailuresReported ==
  /\ app.done = "location failed" =>
       /\ app.error # NoMessage
       /\ Val(app.cause).outcome \in {"no address", "no postcode"} =>
            app.error = MsgZipNotFound
  /\ app.done = "located" => Trim(app.preferences.zip_code) # <<>>
  /\ \A i \in 1..Len(app.pending) : Trim(app.pending[i].zip_code) # <<>>
  /\ p0.done = "location failed" => p0.error # NoMessage
  /\ p0.zipCode # JsUndefined
  /\ \A i \in 1..Len(p0.pending) : p0.pending[i].zip_code # JsUndefined
  /\ (popup.exit = "rejected" /\ popup.cause = None) => popup.alert # NoMessage
  /\ \A i \in 1..Len(popup.inv) :
       popup.inv[i].pc = "recommend" => IsSome(popup.inv[i].zip_code)

\* C13: when the backend answers with a non-2xx status and a body
\* {error: e}, the one message shown to the user carries e, in App.tsx
\* (through api.ts) as in popup.js and in the HTML template.
C13_BackendErrorShown ==
  /\ (app.exit = "non-2xx" /\ IsSome(Val(app.cause).error)) =>
       \E k \in 1..Len(app.error) : app.error[k] = Val(Val(app.cause).error)
  /\ (popup.exit = "non-2xx" /\ IsSome(Val(popup.cause).error)) =>
       \E k \in 1..Len(popup.alert) : popup.alert[k] = Val(Val(popup.cause).error)
  /\ (tpl.exit = "non-2xx" /\ IsSome(Val(tpl.cause).error)) =>
       \E k \in 1..Len(tpl.alert) : tpl.alert[k] = Val(Val(tpl.cause).error)

\* C14: the displayed records are request-scoped in both React submit
\* handlers: once a new submit has started the results list holds no record
\* of an earlier answer, after a successful submit the list is the list of
\* the latest answer, and after a failed submit (validation, network or
\* format error) the list is empty.
C14_RecordsRequestScoped ==
  /\ app.pending # <<>> => app.events = Arr(<<>>)
  /\ app.exit = "ok list" => app.events = Val(app.cause).recommendations
  /\ app.exit \in {"validation", "rejected", "non-2xx", "ok not a list"} =>
       app.events = Arr(<<>>)
  /\ p0.pending # <<>> => p0.recommendations = Arr(<<>>)
  /\ p0.exit = "ok list" => p0.recommendations = Val(p0.cause).recommendations
  /\ p0.exit \in {"validation", "rejected", "non-2xx", "ok not a list"} =>
       p0.recommendations = Arr(<<>>)

(***************************************************************************)
(* Claims about the preferences of App.tsx, checked under SpecPrefs.       *)
(***************************************************************************)
\* the interest lists that the handlers can build
InterestLists == SeqsUpTo({Trim(v) : v \in TypedInterests} \ {<<>>}, MaxInterests)

\* the text ["Music","Art"]
MusicArtJSON ==
  <<"[", "\"", "M", "u", "s", "i", "c", "\"", ",", "\"", "A", "r", "t", "\"", "]">>

\* C15: the interests survive a reload of App.tsx: if the list L was
\* persisted, then after the mount with its load and save effects
\* preferences.interests is L, in the same order, and the storage still
\* holds L.
C15_InterestsRoundTrip ==
  app.done = "mounted" =>
    /\ \A L \in InterestLists :
         Val(app.cause).interests = Some(JSONStringify(L)) =>
           /\ app.preferences.interests = L
           /\ app.storage.interests = Some(JSONStringify(L))
    /\ Val(app.cause).interests = Some(MusicArtJSON) =>
         /\ app.preferences.interests = <<Music, Art>>
         /\ app.storage.interests = Some(MusicArtJSON)

\* the page was loaded again with ["Music","Art"] and a zip code saved
C15_Witness ==
  /\ app.done = "mounted"
  /\ Val(app.cause).interests = Some(MusicArtJSON)
  /\ Val(app.cause).zipCode = Some(Postcode)
  /\ app.preferences.interests = <<Music, Art>>
  /\ app.storage.interests = Some(MusicArtJSON)

\* C16: after any sequence of zip code edits, added and removed interests
\* and location lookups in App.tsx, once the save effect has run, the
\* storage entry zipCode equals preferences.zip_code and the storage entry
\* interests is the JSON encoding of preferences.interests.
C16_StorageMirrorsPreferences ==
  /\ app.storage.zipCode = Some(app.preferences.zip_code)
  /\ app.storage.interests = Some(JSONStringify(app.preferences.interests))
  /\ app.preferences.interests = <<Music, Art>> =>
       app.storage.interests = Some(MusicArtJSON)

\* a lookup resolved after two interests were added
C16_Witness ==
  /\ app.done = "located"
  /\ app.preferences = [zip_code |-> Postcode, interests |-> <<Music, Art>>]
  /\ app.storage = [zipCode |-> Some(Postcode), interests |-> Some(MusicArtJSON)]

\* C17: the zip code survives a reload of App.tsx: if the storage holds a
\* non-empty zipCode z together with a saved interests entry, then after
\* the mount effects preferences.zip_code is z and the storage entry
\* zipCode is still z.
C17_ZipRoundTrip ==
  (/\ app.done = "mounted"
   /\ IsSome(Val(app.cause).zipCode)
   /\ Val(Val(app.cause).zipCode) # <<>>
   /\ IsSome(Val(app.cause).interests))
    => /\ app.preferences.zip_code = Val(Val(app.cause).zipCode)
       /\ app.storage.zipCode = Val(app.cause).zipCode

\* C18: a location lookup of App.tsx changes the zip code only: whatever
\* interests were added or removed while the lookup was pending, the
\* interest list after the lookup has resolved is the list just before.
C18_LookupKeepsInterests ==
  app.done = "located" => app.preferences.interests = Val(app.cause).interests

(***************************************************************************)
(* Claim about the validation of popup.js, checked under Spec.             *)
(***************************************************************************)
\* C19: the click handler of popup.js, given an empty interests input,
\* reports 'Please enter at least one interest' and returns without showing
\* the loading indicator, asking for the location or sending a request;
\* every request it sends carries at least one non-empty interest.
C19_PopupNeedsAnInterest ==
  /\ popup.exit = "validation" => ~popup.loading /\ popup.inv = <<>>
  /\ \A i \in 1..Len(popup.inv) :
       \E k \in 1..Len(popup.inv[i].interests) : popup.inv[i].interests[k] # <<>>
  /\ (popup.interests = <<>> /\ popup.exit = "validation") =>
       popup.alert = MsgNeedInterest

====
